---- MODULE Spec2Model ----
(***************************************************************************)
(* Model of the Flex Living reviews backend (backend/server.js): the       *)
(* in-memory approval store, the approval PATCH handler, the Hostaway      *)
(* fetch-and-normalise handler with its mock-data fallback, the statistics *)
(* handler and the property-scoped fetch; and of the manager dashboard     *)
(* (frontend/src/App.js): its filter-and-sort effect and the statistics    *)
(* it renders.                                                             *)
(*                                                                         *)
(* Conventions.                                                            *)
(*  - Ratings are kept in tenths (7.5 is 75), so that toFixed(1) is an     *)
(*    integer rounding.  NoNumber stands for null / undefined.             *)
(*  - JavaScript strings that the code takes apart or compares (ids,       *)
(*    listing names) are sequences of one-character strings.               *)
(*  - JSON values of the request body field `approved` are tokens:         *)
(*    "true", "false", "'yes'", "1", "null", "undefined".                  *)
(*  - Node runs each handler to its next await without interleaving:       *)
(*    a handler without an await is one action; the Hostaway handler is    *)
(*    two (up to the await of axios.get, and from its return).             *)
(*  - A React state setter and the effect that re-runs on the new state    *)
(*    are one action.  Text the dashboard searches is a sequence of        *)
(*    one-character strings; the empty string is <<>>.                     *)
(*  - Date strings are opaque; DateValue gives the time value new Date     *)
(*    computes, with the runtime's time zone taken to be UTC.              *)
(***************************************************************************)
EXTENDS Integers, Sequences, FiniteSets

\* Bounds of the model.
MaxClients == 2
MaxFetches == 1
MaxCats == 2
MaxReviews == 3

VARIABLES
    reviewApprovals,  \* the Map of server.js line 24: id string -> stored value
    patch,            \* per client: its PATCH /api/reviews/:id/approval call
    fetching,         \* number of GET /api/reviews/hostaway calls awaiting axios.get
    res,              \* the last response sent by a GET handler
    lastSet,          \* history: per id string, the last successful PATCH response, the
                      \* client it went to (0 once that client has taken it), and whether
                      \* no fetch had returned a review of that id when it was sent
    seen,             \* history: the review ids returned by some hostaway fetch
    dashboard,        \* the useState values of App.js: reviews, filteredReviews,
                      \* searchTerm, dateRange and filters
    attempts          \* history: the calls of axios.get made by the fetches that
                      \* have not sent their response yet

vars == <<reviewApprovals, patch, fetching, res, lastSet, seen, dashboard, attempts>>

Clients == 1..MaxClients

-----------------------------------------------------------------------------
(* JavaScript values *)

JsTrue == "true"
JsFalse == "false"
JsUndefined == "undefined"
JsNull == "null"

\* typeof v
TypeOf(v) ==
    IF v \in {"true", "false"} THEN "boolean"
    ELSE IF v \in {"1", "0"} THEN "number"
    ELSE IF v = "null" THEN "object"
    ELSE IF v = "undefined" THEN "undefined"
    ELSE "string"

\* ToBoolean(v): the falsy values are false, 0, null, undefined (and "")
Truthy(v) == v \notin {"false", "0", "null", "undefined", "''"}

\* a || b
JsOr(a, b) == IF Truthy(a) THEN a ELSE b

\* null / undefined where a number is expected
NoNumber == -1

\* NaN where a number is expected
NaN == -2

\* a || b on numbers in tenths: null, undefined and 0 are falsy
NumOr(a, b) == IF a = NoNumber \/ a = 0 THEN b ELSE a

DigitChars == <<"0", "1", "2", "3", "4", "5", "6", "7", "8", "9">>

\* Number.prototype.toString of a non-negative integer: its decimal digits
RECURSIVE toString(_)
toString(n) ==
    IF n < 10 THEN <<DigitChars[n + 1]>>
    ELSE Append(toString(n \div 10), DigitChars[(n % 10) + 1])

\* String.prototype.includes
Includes(s, sub) ==
    \E i \in 1..(Len(s) - Len(sub) + 1) : SubSeq(s, i, i + Len(sub) - 1) = sub

\* (num / den).toFixed(1) in tenths, num in tenths: the nearest tenth, the
\* larger one on a tie.  Exact for the quotients of the model: a tie needs a
\* quotient k/4, which a double holds exactly.
ToFixed1(num, den) == (2 * num + den) \div (2 * den)

-----------------------------------------------------------------------------
(* The approval store *)

EmptyMap == [k \in {} |-> JsUndefined]

\* Map.prototype.get
MapGet(m, k) == IF k \in DOMAIN m THEN m[k] ELSE JsUndefined

\* A store that keeps only the entry just written.
MapSet_Lost(m, k, v) == [x \in {k} |-> v]

\* A store that never overwrites an entry.
MapSet_First(m, k, v) ==
    IF k \in DOMAIN m THEN m ELSE [x \in DOMAIN m \cup {k} |-> IF x = k THEN v ELSE m[x]]

\* Map.prototype.set
MapSet(m, k, v) == [x \in DOMAIN m \cup {k} |-> IF x = k THEN v ELSE m[x]]

\* A normaliser that marks every review pending, whatever the store holds.
ApprovedOf_Pending(store, id) == JsFalse

\* A join that reads the flag without the `|| false` default.
ApprovedOf_NoDefault(store, id) == MapGet(store, toString(id))

\* reviewApprovals.get(review.id.toString()) || false
ApprovedOf(store, id) == JsOr(MapGet(store, toString(id)), JsFalse)

-----------------------------------------------------------------------------
(* Raw review records and the normaliser *)

NoId == -1

ShoreditchHeights ==
    <<"2", "B", " ", "N", "1", " ", "A", " ", "-", " ", "2", "9", " ",
      "S", "h", "o", "r", "e", "d", "i", "t", "c", "h", " ",
      "H", "e", "i", "g", "h", "t", "s">>

Cat(name, rating) == [category |-> name, rating |-> rating]

\* reviewCategory of a raw record: absent (null / undefined) or an array
NoCategories == [defined |-> FALSE, items |-> <<>>]
Categories(items) == [defined |-> TRUE, items |-> items]

mockReviews ==
    << [id |-> 7453,
        type |-> "guest-to-host",
        status |-> "published",
        rating |-> NoNumber,
        publicReview |-> "Shane and family are wonderful! ...",
        reviewCategory |-> Categories(<<Cat("cleanliness", 90), Cat("location", 100),
                                        Cat("amenities", 90), Cat("hospitality", 100)>>),
        submittedAt |-> "2024-11-28 16:20:12",
        guestName |-> "Lisa Rodriguez",
        listingName |-> ShoreditchHeights] >>

DefaultRating == 75

RECURSIVE SumRatings(_)
\* categories.reduce((sum, cat) => sum + (cat.rating || 0), 0)
SumRatings(items) ==
    IF items = <<>> THEN 0
    ELSE NumOr(Head(items).rating, 0) + SumRatings(Tail(items))

\* A mean that is truncated instead of rounded.
calculateOverallRating_Trunc(categories) ==
    IF ~categories.defined \/ Len(categories.items) = 0 THEN DefaultRating
    ELSE SumRatings(categories.items) \div Len(categories.items)

\* A sum that is not divided by the number of categories.
calculateOverallRating_Sum(categories) ==
    IF ~categories.defined \/ Len(categories.items) = 0 THEN DefaultRating
    ELSE SumRatings(categories.items)

calculateOverallRating(categories) ==
    IF ~categories.defined \/ Len(categories.items) = 0 THEN DefaultRating
    ELSE ToFixed1(SumRatings(categories.items), Len(categories.items))

\* review.rating || calculateOverallRating(review.reviewCategory)
RatingOf(review) == NumOr(review.rating, calculateOverallRating(review.reviewCategory))

\* The object built by the callback of reviews.map in the hostaway handler
Normalize(review, store) ==
    [id |-> review.id,
     type |-> review.type,
     status |-> review.status,
     rating |-> RatingOf(review),
     publicReview |-> review.publicReview,
     reviewCategory |-> review.reviewCategory.items,
     submittedAt |-> review.submittedAt,
     guestName |-> review.guestName,
     listingName |-> review.listingName,
     approved |-> ApprovedOf(store, review.id),
     channel |-> "hostaway"]

\* review.id.toString() throws a TypeError when the record has no id
Throws(reviews) == \E i \in 1..Len(reviews) : reviews[i].id = NoId

normalizedReviews(reviews, store) == [i \in 1..Len(reviews) |-> Normalize(reviews[i], store)]

-----------------------------------------------------------------------------
(* The channel source (the Hostaway API behind axios.get) *)

RawReview(id, rating, categories) ==
    [id |-> id,
     type |-> "guest-to-host",
     status |-> "published",
     rating |-> rating,
     publicReview |-> "Great stay",
     reviewCategory |-> categories,
     submittedAt |-> "2024-10-05 09:00:00",
     guestName |-> "Ann Lee",
     listingName |-> <<"1", "B", " ", "S", "o", "h", "o">>]

\* Result lists the source delivers in the approval model: one review, two
\* reviews (one of them with the id of the mock review), and a record without id.
ApiBatches ==
    { <<RawReview(1, 80, NoCategories)>>,
      <<RawReview(1, 80, NoCategories),
        RawReview(7453, NoNumber, Categories(<<Cat("cleanliness", 90), Cat("location", 70)>>))>>,
      <<RawReview(NoId, 80, NoCategories)>> }

\* What `await axios.get` can produce: a throw (timeout, transport or parse
\* failure), a body without result list, or a body with a result list.
SourceOutcomes(batches) ==
    { [ok |-> FALSE, hasResult |-> FALSE, result |-> <<>>],
      [ok |-> TRUE, hasResult |-> FALSE, result |-> <<>>],
      [ok |-> TRUE, hasResult |-> TRUE, result |-> <<>>] }
    \cup { [ok |-> TRUE, hasResult |-> TRUE, result |-> b] : b \in batches }

\* What the source did, as kept with the response of the fetch
Upstream(o) ==
    IF ~o.ok THEN "failed"
    ELSE IF ~o.hasResult THEN "no result"
    ELSE IF Len(o.result) = 0 THEN "empty"
    ELSE "answered"

-----------------------------------------------------------------------------
(* Responses *)

\* What a handler was called with, kept with its response: what the source
\* did (hostaway), the path and query parameters (property)
NoCall == [upstream |-> "none", listingId |-> <<>>, approved_only |-> JsUndefined]

NoRes ==
    [op |-> "none", status |-> 0, body |-> [success |-> FALSE], raw |-> <<>>, call |-> NoCall]

TypeErrorMessage == "Cannot read properties of undefined (reading 'toString')"

NoResp ==
    [status |-> 0, success |-> FALSE, error |-> "", message |-> "",
     reviewId |-> <<>>, approved |-> JsUndefined]

\* The arguments of a call of toggleApproval; none for a call that another
\* client than the dashboard makes
NoToggle == [id |-> NoId, approved |-> JsUndefined]

\* A client's call: not made, on its way to the handler, or answered.  `approved`
\* is the body field the handler read; `raced` records that another call was on
\* its way when the handler ran; `toggle` holds the arguments of toggleApproval
\* when the dashboard made the call.
IdleCall ==
    [pc |-> "idle", approved |-> JsUndefined, resp |-> NoResp, raced |-> FALSE,
     toggle |-> NoToggle]

-----------------------------------------------------------------------------
(* GET /api/reviews/hostaway *)

\* The handler runs to `await axios.get(...)`.
HostawayRequest ==
    /\ fetching < MaxFetches
    /\ fetching' = fetching + 1
    /\ attempts' = attempts + 1
    /\ UNCHANGED <<reviewApprovals, patch, res, lastSet, seen, dashboard>>

\* The body sent by res.json / res.status(500).json for the reviews chosen
HostawayResponse(apiReviews, store) ==
    LET reviews == IF Len(apiReviews) > 0 THEN apiReviews ELSE mockReviews
    IN  IF Throws(reviews)
        THEN [op |-> "hostaway", status |-> 500,
              body |-> [success |-> FALSE, error |-> "Failed to fetch reviews",
                        message |-> TypeErrorMessage],
              raw |-> reviews, call |-> NoCall]
        ELSE [op |-> "hostaway", status |-> 200,
              body |-> [success |-> TRUE,
                        data |-> normalizedReviews(reviews, store),
                        total |-> Len(normalizedReviews(reviews, store)),
                        source |-> IF Len(apiReviews) > 0 THEN "hostaway_api" ELSE "mock_data",
                        message |-> IF Len(apiReviews) > 0 THEN "Data from Hostaway API"
                                    ELSE "Using mock data (sandbox environment)"],
              raw |-> reviews, call |-> NoCall]

\* A fetch that records the default flag of every review it returns.
HostawayReturn_Caching(batches) ==
    /\ fetching > 0
    /\ \E o \in SourceOutcomes(batches) :
         LET apiReviews == IF o.ok /\ o.hasResult /\ Len(o.result) > 0 THEN o.result ELSE <<>>
             r == [HostawayResponse(apiReviews, reviewApprovals)
                       EXCEPT !.call.upstream = Upstream(o)]
             ids == IF r.status = 200 THEN {r.body.data[i].id : i \in 1..Len(r.body.data)}
                    ELSE {}
         IN  /\ res' = r
             /\ seen' = seen \cup ids
             /\ reviewApprovals' =
                    [k \in DOMAIN reviewApprovals \cup {toString(n) : n \in ids} |->
                        JsOr(MapGet(reviewApprovals, k), JsFalse)]
    /\ fetching' = fetching - 1
    /\ attempts' = attempts - 1
    /\ UNCHANGED <<patch, lastSet, dashboard>>

\* A handler without the inner try / catch: a throw of axios.get reaches the
\* outer catch.
HostawayReturn_Uncaught(batches) ==
    /\ fetching > 0
    /\ \E o \in SourceOutcomes(batches) :
         LET apiReviews == IF o.ok /\ o.hasResult /\ Len(o.result) > 0 THEN o.result ELSE <<>>
             r == IF o.ok
                  THEN [HostawayResponse(apiReviews, reviewApprovals)
                            EXCEPT !.call.upstream = Upstream(o)]
                  ELSE [op |-> "hostaway", status |-> 500,
                        body |-> [success |-> FALSE, error |-> "Failed to fetch reviews",
                                  message |-> "timeout of 10000ms exceeded"],
                        raw |-> <<>>, call |-> [NoCall EXCEPT !.upstream = "failed"]]
         IN  /\ res' = r
             /\ seen' = IF r.status = 200
                        THEN seen \cup {r.body.data[i].id : i \in 1..Len(r.body.data)}
                        ELSE seen
    /\ fetching' = fetching - 1
    /\ attempts' = attempts - 1
    /\ UNCHANGED <<reviewApprovals, patch, lastSet, dashboard>>

\* A fetch that goes on only when no approval call is on its way.
HostawayReturn_Waiting(batches) ==
    /\ fetching > 0
    /\ \A c \in Clients : patch[c].pc # "sent"
    /\ \E o \in SourceOutcomes(batches) :
         LET apiReviews == IF o.ok /\ o.hasResult /\ Len(o.result) > 0 THEN o.result ELSE <<>>
             r == [HostawayResponse(apiReviews, reviewApprovals)
                       EXCEPT !.call.upstream = Upstream(o)]
         IN  /\ res' = r
             /\ seen' = IF r.status = 200
                        THEN seen \cup {r.body.data[i].id : i \in 1..Len(r.body.data)}
                        ELSE seen
    /\ fetching' = fetching - 1
    /\ attempts' = attempts - 1
    /\ UNCHANGED <<reviewApprovals, patch, lastSet, dashboard>>

\* A handler that calls the source again when its call has thrown.
HostawayReturn_Retrying(batches) ==
    /\ fetching > 0
    /\ \E o \in SourceOutcomes(batches) :
         IF ~o.ok /\ attempts <= MaxFetches
         THEN /\ attempts' = attempts + 1
              /\ UNCHANGED <<fetching, res, seen>>
         ELSE LET apiReviews == IF o.ok /\ o.hasResult /\ Len(o.result) > 0
                                THEN o.result ELSE <<>>
                  r == [HostawayResponse(apiReviews, reviewApprovals)
                            EXCEPT !.call.upstream = Upstream(o)]
              IN  /\ res' = r
                  /\ seen' = IF r.status = 200
                             THEN seen \cup {r.body.data[i].id : i \in 1..Len(r.body.data)}
                             ELSE seen
                  /\ fetching' = fetching - 1
                  /\ attempts' = 0
    /\ UNCHANGED <<reviewApprovals, patch, lastSet, dashboard>>

\* axios.get returns or throws, and the handler runs to its end.
\* A fetch that passes on an empty result list of the source.
HostawayReturn_EmptyExternal(batches) ==
    /\ fetching > 0
    /\ \E o \in SourceOutcomes(batches) :
         LET apiReviews == IF o.ok /\ o.hasResult /\ Len(o.result) > 0 THEN o.result ELSE <<>>
             sent == [HostawayResponse(apiReviews, reviewApprovals)
                          EXCEPT !.call.upstream = Upstream(o)]
             r == IF o.ok /\ o.hasResult /\ Len(o.result) = 0
                  THEN [sent EXCEPT !.body.data = <<>>, !.body.total = 0,
                                    !.body.source = "hostaway_api", !.raw = <<>>]
                  ELSE sent
         IN  /\ res' = r
             /\ seen' = IF r.status = 200
                        THEN seen \cup {r.body.data[i].id : i \in 1..Len(r.body.data)}
                        ELSE seen
    /\ fetching' = fetching - 1
    /\ attempts' = attempts - 1
    /\ UNCHANGED <<reviewApprovals, patch, lastSet, dashboard>>

\* A fetch during whose normalisation an approval of the mock review takes
\* effect after the first review of the batch.
HostawayReturn_Interleaved(batches) ==
    /\ fetching > 0
    /\ \E o \in SourceOutcomes(batches) :
         LET apiReviews == IF o.ok /\ o.hasResult /\ Len(o.result) > 0 THEN o.result ELSE <<>>
             later == MapSet(reviewApprovals, toString(7453), JsTrue)
             first == [HostawayResponse(apiReviews, reviewApprovals)
                           EXCEPT !.call.upstream = Upstream(o)]
             rest == HostawayResponse(apiReviews, later)
             split == first.status = 200 /\ Len(first.body.data) > 1
             r == IF split
                  THEN [first EXCEPT !.body.data =
                            [i \in 1..Len(@) |-> IF i = 1 THEN @[i] ELSE rest.body.data[i]]]
                  ELSE first
         IN  /\ res' = r
             /\ reviewApprovals' = IF split THEN later ELSE reviewApprovals
             /\ seen' = IF r.status = 200
                        THEN seen \cup {r.body.data[i].id : i \in 1..Len(r.body.data)}
                        ELSE seen
    /\ fetching' = fetching - 1
    /\ attempts' = attempts - 1
    /\ UNCHANGED <<patch, lastSet, dashboard>>

HostawayReturn(batches) ==
    /\ fetching > 0
    /\ \E o \in SourceOutcomes(batches) :
         LET apiReviews == IF o.ok /\ o.hasResult /\ Len(o.result) > 0 THEN o.result ELSE <<>>
             r == [HostawayResponse(apiReviews, reviewApprovals)
                       EXCEPT !.call.upstream = Upstream(o)]
         IN  /\ res' = r
             /\ seen' = IF r.status = 200
                        THEN seen \cup {r.body.data[i].id : i \in 1..Len(r.body.data)}
                        ELSE seen
    /\ fetching' = fetching - 1
    /\ attempts' = attempts - 1
    /\ UNCHANGED <<reviewApprovals, patch, lastSet, dashboard>>

-----------------------------------------------------------------------------
(* PATCH /api/reviews/:id/approval *)

\* The id strings clients put in the URL: the ids of the reviews, and an id
\* string that is no review's id.toString().
PatchIds == {toString(7453), toString(1), <<"0", "1">>}

\* The values of the body field `approved`
ApprovedInputs == {JsTrue, JsFalse, "'yes'", "1", JsNull, JsUndefined}

\* req.params.id and req.body.approved of the call of client c: what
\* toggleApproval has put in the URL and the body, any value otherwise
RequestIds(c) ==
    IF patch[c].toggle = NoToggle THEN PatchIds ELSE {toString(patch[c].toggle.id)}

RequestBodies(c) ==
    IF patch[c].toggle = NoToggle THEN ApprovedInputs ELSE {patch[c].toggle.approved}

\* A check that only asks for the field to be there.
ValidApproval_Present(approved) == approved # JsUndefined

\* typeof approved === 'boolean'
ValidApproval(approved) == TypeOf(approved) = "boolean"

\* A client sends a request.
SetApprovalRequest(c) ==
    /\ patch[c].pc = "idle"
    /\ patch' = [patch EXCEPT ![c].pc = "sent"]
    /\ UNCHANGED <<reviewApprovals, fetching, res, lastSet, seen, dashboard, attempts>>

\* The answer to a request with a body field that is no boolean
InvalidApproval ==
    [NoResp EXCEPT !.status = 400, !.error = "Invalid approval status. Must be boolean."]

\* The answer to a request that was stored
ApprovalStored(reviewId, approved) ==
    [NoResp EXCEPT !.status = 200, !.success = TRUE,
                   !.message = IF Truthy(approved) THEN "Review approved successfully"
                               ELSE "Review hidden successfully",
                   !.reviewId = reviewId, !.approved = approved]

\* A handler that refuses the ids of reviews no fetch has returned.
ApprovalHandler_KnownOnly(c) ==
    /\ patch[c].pc = "sent"
    /\ \E reviewId \in RequestIds(c), approved \in RequestBodies(c) :
         IF ~ValidApproval(approved) \/ \A n \in seen : toString(n) # reviewId
         THEN /\ patch' = [patch EXCEPT ![c] = [pc |-> "done", approved |-> approved,
                                                resp |-> InvalidApproval, raced |-> FALSE,
                                                toggle |-> patch[c].toggle]]
              /\ UNCHANGED <<reviewApprovals, lastSet>>
         ELSE /\ reviewApprovals' = MapSet(reviewApprovals, reviewId, approved)
              /\ patch' = [patch EXCEPT ![c] = [pc |-> "done", approved |-> approved,
                                                resp |-> ApprovalStored(reviewId, approved),
                                                raced |-> FALSE,
                                                toggle |-> patch[c].toggle]]
              /\ lastSet' = [k \in DOMAIN lastSet \cup {reviewId} |->
                                IF k = reviewId
                                THEN [approved |-> approved, by |-> c, unseen |-> FALSE]
                                ELSE lastSet[k]]
    /\ UNCHANGED <<fetching, res, seen, dashboard, attempts>>

\* express.json() has parsed the body and the handler runs with req.params.id
\* and req.body.approved; it has no await and runs without interleaving.
ApprovalHandler(c) ==
    /\ patch[c].pc = "sent"
    /\ \E reviewId \in RequestIds(c), approved \in RequestBodies(c) :
         LET raced == \E d \in Clients : d # c /\ patch[d].pc = "sent"
         IN  IF ~ValidApproval(approved)
             THEN /\ patch' = [patch EXCEPT ![c] = [pc |-> "done", approved |-> approved,
                                                    resp |-> InvalidApproval, raced |-> raced,
                                                    toggle |-> patch[c].toggle]]
                  /\ UNCHANGED <<reviewApprovals, lastSet>>
             ELSE /\ reviewApprovals' = MapSet(reviewApprovals, reviewId, approved)
                  /\ patch' = [patch EXCEPT ![c] = [pc |-> "done", approved |-> approved,
                                                    resp |-> ApprovalStored(reviewId, approved),
                                                    raced |-> raced,
                                                    toggle |-> patch[c].toggle]]
                  /\ lastSet' = [k \in DOMAIN lastSet \cup {reviewId} |->
                                    IF k = reviewId
                                    THEN [approved |-> approved, by |-> c,
                                          unseen |-> \A n \in seen : toString(n) # reviewId]
                                    ELSE lastSet[k]]
    /\ UNCHANGED <<fetching, res, seen, dashboard, attempts>>

\* The client takes the response; its call is over.
ApprovalResponse(c) ==
    /\ patch[c].pc = "done"
    /\ patch[c].toggle = NoToggle
    /\ patch' = [patch EXCEPT ![c] = IdleCall]
    /\ lastSet' = [k \in DOMAIN lastSet |->
                      IF lastSet[k].by = c THEN [lastSet[k] EXCEPT !.by = 0] ELSE lastSet[k]]
    /\ UNCHANGED <<reviewApprovals, fetching, res, seen, dashboard, attempts>>

-----------------------------------------------------------------------------
(* GET /api/reviews/statistics *)

InvalidDate == -1

\* new Date(s) as the seconds since 2024-01-01 00:00:00, InvalidDate for a
\* string that is no date.  A string without a time is the start of its day.
DateValue(s) ==
    CASE s = "2024-11-28 16:20:12" -> 28743612
      [] s = "2024-11-01" -> 26352000
      [] s = "2024-10-05 09:00:00" -> 24051600
      [] s = "2024-10-05 00:00:00" -> 24019200
      [] s = "2024-10-05" -> 24019200
      [] OTHER -> InvalidDate

\* The comparator (a, b) => new Date(b.submittedAt) - new Date(a.submittedAt)
\* puts a after b: its result is positive (a NaN result is not)
NewerFirstAfter(a, b) ==
    /\ DateValue(a.submittedAt) # InvalidDate
    /\ DateValue(b.submittedAt) # InvalidDate
    /\ DateValue(b.submittedAt) - DateValue(a.submittedAt) > 0

RECURSIVE InsertNewerFirst(_, _)
InsertNewerFirst(sorted, x) ==
    IF sorted = <<>> THEN <<x>>
    ELSE LET last == sorted[Len(sorted)]
         IN  IF NewerFirstAfter(last, x)
             THEN Append(InsertNewerFirst(SubSeq(sorted, 1, Len(sorted) - 1), x), last)
             ELSE Append(sorted, x)

RECURSIVE SortNewerFirst(_)
\* Array.prototype.sort with that comparator: a stable insertion sort
SortNewerFirst(reviews) ==
    IF reviews = <<>> THEN <<>>
    ELSE InsertNewerFirst(SortNewerFirst(SubSeq(reviews, 1, Len(reviews) - 1)),
                          reviews[Len(reviews)])

RecentLimit == 5

\* { ...review, rating: ..., approved: ... } of the statistics and property handlers
WithRatingAndApproval(review, store) ==
    [id |-> review.id,
     type |-> review.type,
     status |-> review.status,
     rating |-> RatingOf(review),
     publicReview |-> review.publicReview,
     reviewCategory |-> review.reviewCategory,
     submittedAt |-> review.submittedAt,
     guestName |-> review.guestName,
     listingName |-> review.listingName,
     approved |-> ApprovedOf(store, review.id)]

RECURSIVE SumOfRatings(_)
\* reviews.reduce((sum, review) => sum + review.rating, 0)
SumOfRatings(reviews) ==
    IF reviews = <<>> THEN 0 ELSE Head(reviews).rating + SumOfRatings(Tail(reviews))

\* reviews.filter(review => review.approved)
ApprovedOnly(reviews) == SelectSeq(reviews, LAMBDA review : Truthy(review.approved))

Text(v) == [type |-> "string", value |-> v]
Num(v) == [type |-> "number", value |-> v]

\* The property-specific stats object, keyed by listing name
propertyStats(reviews) ==
    LET names == {reviews[i].listingName : i \in 1..Len(reviews)}
        of(n) == SelectSeq(reviews, LAMBDA review : review.listingName = n)
    IN  [n \in names |->
            [total |-> Len(of(n)),
             approved |-> Len(ApprovedOnly(of(n))),
             averageRating |-> Text(ToFixed1(SumOfRatings(of(n)), Len(of(n)))),
             totalRating |-> SumOfRatings(of(n))]]

\* A projection of the first reviews of the dataset, in dataset order.
recentActivity_Unsorted(reviews) ==
    LET top == SubSeq(reviews, 1, IF Len(reviews) < RecentLimit THEN Len(reviews) ELSE RecentLimit)
    IN  [i \in 1..Len(top) |->
            [id |-> top[i].id,
             guestName |-> top[i].guestName,
             listingName |-> top[i].listingName,
             rating |-> top[i].rating,
             submittedAt |-> top[i].submittedAt,
             approved |-> top[i].approved]]

recentActivity(reviews) ==
    LET sorted == SortNewerFirst(reviews)
        top == SubSeq(sorted, 1, IF Len(sorted) < RecentLimit THEN Len(sorted) ELSE RecentLimit)
    IN  [i \in 1..Len(top) |->
            [id |-> top[i].id,
             guestName |-> top[i].guestName,
             listingName |-> top[i].listingName,
             rating |-> top[i].rating,
             submittedAt |-> top[i].submittedAt,
             approved |-> top[i].approved]]

\* The body of the statistics response; rates are tenths of a percent
StatisticsOver(raws, store) ==
    LET reviews == [i \in 1..Len(raws) |-> WithRatingAndApproval(raws[i], store)]
        totalReviews == Len(reviews)
        averageRating == IF Len(reviews) > 0
                         THEN Text(ToFixed1(SumOfRatings(reviews), Len(reviews)))
                         ELSE Num(0)
        approvedCount == Len(ApprovedOnly(reviews))
        pendingCount == totalReviews - approvedCount
    IN  [success |-> TRUE,
         data |-> [overall |-> [totalReviews |-> totalReviews,
                                averageRating |-> Num(averageRating.value),
                                approvedCount |-> approvedCount,
                                pendingCount |-> pendingCount,
                                approvalRate |-> IF totalReviews > 0
                                                 THEN Text(ToFixed1(approvedCount * 1000,
                                                                    totalReviews))
                                                 ELSE Num(0)],
                   byProperty |-> propertyStats(reviews),
                   recentActivity |-> recentActivity(reviews)]]

\* Statistics that count the approvals the store holds, whatever their review.
StatisticsBody_Stored(store) ==
    LET body == StatisticsOver(mockReviews, store)
        stored == Cardinality({k \in DOMAIN store : Truthy(store[k])})
    IN  [body EXCEPT !.data.overall.approvedCount = stored,
                     !.data.overall.pendingCount = body.data.overall.totalReviews - stored]

\* const reviews = mockReviews.map(...): the handler reads the mock reviews
StatisticsBody(store) == StatisticsOver(mockReviews, store)

StatisticsHandler ==
    /\ res' = [op |-> "statistics", status |-> 200, body |-> StatisticsBody(reviewApprovals),
               raw |-> mockReviews, call |-> NoCall]
    /\ UNCHANGED <<reviewApprovals, patch, fetching, lastSet, seen, dashboard, attempts>>

-----------------------------------------------------------------------------
(* GET /api/reviews/property/:listingId *)

\* The values of the path parameter: the id of the mock review, a part of its
\* listing name, the id of another review, and a string that matches nothing.
ListingIds == {toString(7453), <<"S", "h", "o", "r", "e">>, toString(1), <<"9", "9">>}

\* The values of the query parameter approved_only
ApprovedOnlyParams == {"true", JsUndefined}

\* A property fetch that returns the reviews of the listing whatever their
\* approval.
PropertyBody_All(listingId, approved_only, store) ==
    LET matching == SelectSeq(mockReviews, LAMBDA review :
                        Includes(review.listingName, listingId) \/ toString(review.id) = listingId)
        all == [i \in 1..Len(matching) |-> WithRatingAndApproval(matching[i], store)]
    IN  [success |-> TRUE, data |-> all, total |-> Len(all), listingId |-> listingId]

PropertyBody(listingId, approved_only, store) ==
    LET matching == SelectSeq(mockReviews, LAMBDA review :
                        Includes(review.listingName, listingId) \/ toString(review.id) = listingId)
        all == [i \in 1..Len(matching) |-> WithRatingAndApproval(matching[i], store)]
        reviews == IF approved_only = "true" THEN ApprovedOnly(all) ELSE all
    IN  [success |-> TRUE, data |-> reviews, total |-> Len(reviews), listingId |-> listingId]

PropertyHandler ==
    /\ \E listingId \in ListingIds, approved_only \in ApprovedOnlyParams :
         res' = [op |-> "property", status |-> 200,
                 body |-> PropertyBody(listingId, approved_only, reviewApprovals),
                 raw |-> mockReviews,
                 call |-> [NoCall EXCEPT !.listingId = listingId,
                                         !.approved_only = approved_only]]
    /\ UNCHANGED <<reviewApprovals, patch, fetching, lastSet, seen, dashboard, attempts>>

-----------------------------------------------------------------------------
(* The manager dashboard: frontend/src/App.js *)

UpperCase ==
    <<"A", "B", "C", "D", "E", "F", "G", "H", "I", "J", "K", "L", "M",
      "N", "O", "P", "Q", "R", "S", "T", "U", "V", "W", "X", "Y", "Z">>

LowerCase ==
    <<"a", "b", "c", "d", "e", "f", "g", "h", "i", "j", "k", "l", "m",
      "n", "o", "p", "q", "r", "s", "t", "u", "v", "w", "x", "y", "z">>

\* The lower-case letter of every upper-case letter
LowerOf ==
    [ch \in {UpperCase[k] : k \in 1..Len(UpperCase)} |->
        LowerCase[CHOOSE k \in 1..Len(UpperCase) : UpperCase[k] = ch]]

\* String.prototype.toLowerCase
toLowerCase(s) ==
    [i \in 1..Len(s) |-> IF s[i] \in DOMAIN LowerOf THEN LowerOf[s[i]] ELSE s[i]]

IsDigit(ch) == \E k \in 1..Len(DigitChars) : DigitChars[k] = ch

RECURSIVE DigitsValue(_, _)
DigitsValue(s, acc) ==
    IF s = <<>> \/ ~IsDigit(Head(s)) THEN acc
    ELSE DigitsValue(Tail(s),
                     10 * acc + (CHOOSE k \in 1..Len(DigitChars) : DigitChars[k] = Head(s)) - 1)

\* parseInt of a string: the value of its leading digits, NaN without one
parseInt(s) == IF s = <<>> \/ ~IsDigit(Head(s)) THEN NaN ELSE DigitsValue(s, 0)

\* A comparison that holds for equal dates too.
DateBefore_OrEqual(a, b) ==
    /\ DateValue(a) # InvalidDate
    /\ DateValue(b) # InvalidDate
    /\ DateValue(a) <= DateValue(b)

\* new Date(a) < new Date(b): false when either is an Invalid Date
DateBefore(a, b) ==
    /\ DateValue(a) # InvalidDate
    /\ DateValue(b) # InvalidDate
    /\ DateValue(a) < DateValue(b)

\* A review as the hostaway fetch returns it
Review(id, guestName, publicReview, listingName, rating, submittedAt, approved) ==
    [id |-> id,
     type |-> "guest-to-host",
     status |-> "published",
     rating |-> rating,
     publicReview |-> publicReview,
     reviewCategory |-> <<>>,
     submittedAt |-> submittedAt,
     guestName |-> guestName,
     listingName |-> listingName,
     approved |-> approved,
     channel |-> "hostaway"]

Soho == <<"S", "o", "h", "o">>
Kew == <<"K", "e", "w">>

\* The reviews a fetch has brought to the dashboard: two pending ones of the
\* same instant with ratings 9 and 6, and a later, approved one with rating 9.
ReviewPool ==
    { Review(1, <<"A", "n", "n">>, <<"G", "o", "o", "d">>, Soho, 90,
             "2024-10-05 00:00:00", JsFalse),
      Review(2, <<"B", "o", "b">>, <<"s", "o", "-", "s", "o">>, Kew, 60,
             "2024-10-05 00:00:00", JsFalse),
      Review(3, <<"C", "y">>, <<"F", "i", "n", "e">>, Kew, 90,
             "2024-11-28 16:20:12", JsTrue) }

\* The review lists of the dashboard: up to MaxReviews reviews of distinct ids
ReviewLists ==
    UNION { { s \in [1..n -> ReviewPool] : \A i, j \in 1..n : s[i] = s[j] => i = j }
            : n \in 0..MaxReviews }

\* useState(...) of lines 5-18
InitialDashboard ==
    [reviews |-> <<>>,
     filteredReviews |-> <<>>,
     searchTerm |-> <<>>,
     dateRange |-> [start |-> "", end |-> ""],
     filters |-> [property |-> <<>>, rating |-> <<>>, status |-> "", date |-> "",
                  sortBy |-> "date-desc", channel |-> ""]]

\* A callback that does not look at the rating.
Include_AnyRating(review, d) ==
    /\ d.searchTerm # <<>> =>
         LET searchLower == toLowerCase(d.searchTerm)
         IN  \/ Includes(toLowerCase(review.guestName), searchLower)
             \/ Includes(toLowerCase(review.publicReview), searchLower)
             \/ Includes(toLowerCase(review.listingName), searchLower)
    /\ ~(d.filters.property # <<>> /\ review.listingName # d.filters.property)
    /\ ~(d.filters.status = "approved" /\ ~Truthy(review.approved))
    /\ ~(d.filters.status = "pending" /\ Truthy(review.approved))
    /\ ~(d.filters.channel # "" /\ review.channel # d.filters.channel)
    /\ ~(d.dateRange.start # "" /\ DateBefore(review.submittedAt, d.dateRange.start))
    /\ ~(d.dateRange.end # "" /\ DateBefore(d.dateRange.end, review.submittedAt))

\* The callback of reviews.filter in the effect
Include(review, d) ==
    /\ d.searchTerm # <<>> =>
         LET searchLower == toLowerCase(d.searchTerm)
         IN  \/ Includes(toLowerCase(review.guestName), searchLower)
             \/ Includes(toLowerCase(review.publicReview), searchLower)
             \/ Includes(toLowerCase(review.listingName), searchLower)
    /\ ~(d.filters.property # <<>> /\ review.listingName # d.filters.property)
    /\ ~(d.filters.rating # <<>> /\ parseInt(d.filters.rating) # NaN
           /\ NumOr(review.rating, 0) < 10 * parseInt(d.filters.rating))
    /\ ~(d.filters.status = "approved" /\ ~Truthy(review.approved))
    /\ ~(d.filters.status = "pending" /\ Truthy(review.approved))
    /\ ~(d.filters.channel # "" /\ review.channel # d.filters.channel)
    /\ ~(d.dateRange.start # "" /\ DateBefore(review.submittedAt, d.dateRange.start))
    /\ ~(d.dateRange.end # "" /\ DateBefore(d.dateRange.end, review.submittedAt))

\* The comparator of filtered.sort returns a number above 0: a goes after b.
\* A difference with an Invalid Date is NaN, which is not above 0.
ComparesAfter(a, b, sortBy) ==
    CASE sortBy = "date-asc" -> DateBefore(b.submittedAt, a.submittedAt)
      [] sortBy = "date-desc" -> DateBefore(a.submittedAt, b.submittedAt)
      [] sortBy = "rating-asc" -> NumOr(a.rating, 0) - NumOr(b.rating, 0) > 0
      [] sortBy = "rating-desc" -> NumOr(b.rating, 0) - NumOr(a.rating, 0) > 0
      [] OTHER -> DateBefore(a.submittedAt, b.submittedAt)

RECURSIVE InsertSorted_Unstable(_, _, _)
\* An insertion that goes past the elements of equal key.
InsertSorted_Unstable(sorted, x, sortBy) ==
    IF sorted = <<>> THEN <<x>>
    ELSE LET last == sorted[Len(sorted)]
         IN  IF ~ComparesAfter(x, last, sortBy)
             THEN Append(InsertSorted_Unstable(SubSeq(sorted, 1, Len(sorted) - 1), x, sortBy),
                         last)
             ELSE Append(sorted, x)

RECURSIVE InsertSorted(_, _, _)
InsertSorted(sorted, x, sortBy) ==
    IF sorted = <<>> THEN <<x>>
    ELSE LET last == sorted[Len(sorted)]
         IN  IF ComparesAfter(last, x, sortBy)
             THEN Append(InsertSorted(SubSeq(sorted, 1, Len(sorted) - 1), x, sortBy), last)
             ELSE Append(sorted, x)

RECURSIVE Sort(_, _)
\* Array.prototype.sort with that comparator: a stable insertion sort
Sort(list, sortBy) ==
    IF list = <<>> THEN <<>>
    ELSE InsertSorted(Sort(SubSeq(list, 1, Len(list) - 1), sortBy), list[Len(list)], sortBy)

\* `filtered` at the end of the effect
FilterAndSort(d) ==
    Sort(SelectSeq(d.reviews, LAMBDA review : Include(review, d)), d.filters.sortBy)

\* An effect that sorts the fetched reviews where they are.
FilterEffect_InPlace(d) ==
    [d EXCEPT !.reviews = Sort(d.reviews, d.filters.sortBy),
              !.filteredReviews = FilterAndSort(d)]

\* The effect of lines 44-89, run on the state d a setter has left:
\* reviews.filter builds a new array, which is sorted and put in filteredReviews.
FilterEffect(d) == [d EXCEPT !.filteredReviews = FilterAndSort(d)]

\* What a manager types in the search box
SearchTerms == {<<>>, <<"S", "O">>}

\* The values of the date inputs
DateInputs == {"", "2024-10-05", "2024-11-01"}

\* The options of the selects: the listings and channels of the fetched
\* reviews, the rating thresholds, the states, the sort orders
FilterOptions(d) ==
    [property |-> {<<>>} \cup {d.reviews[i].listingName : i \in 1..Len(d.reviews)},
     channel |-> {""} \cup {d.reviews[i].channel : i \in 1..Len(d.reviews)},
     status |-> {"", "approved", "pending"},
     rating |-> {<<>>, <<"8">>},
     sortBy |-> {"date-desc", "date-asc", "rating-desc", "rating-asc"}]

\* onChange of the search box: setSearchTerm(e.target.value)
SetSearchTerm ==
    /\ \E v \in SearchTerms :
         dashboard' = FilterEffect([dashboard EXCEPT !.searchTerm = v])
    /\ UNCHANGED <<reviewApprovals, patch, fetching, res, lastSet, seen, attempts>>

\* onChange of a date input: setDateRange(prev => ({ ...prev, start | end: value }))
SetDateRange ==
    /\ \E field \in {"start", "end"}, v \in DateInputs :
         dashboard' = FilterEffect([dashboard EXCEPT !.dateRange[field] = v])
    /\ UNCHANGED <<reviewApprovals, patch, fetching, res, lastSet, seen, attempts>>

\* onChange of a select: setFilters(prev => ({ ...prev, [field]: value }))
SetFilters ==
    /\ \E field \in DOMAIN FilterOptions(dashboard) :
         \E v \in FilterOptions(dashboard)[field] :
           dashboard' = FilterEffect([dashboard EXCEPT !.filters[field] = v])
    /\ UNCHANGED <<reviewApprovals, patch, fetching, res, lastSet, seen, attempts>>

\* The buttons of a listed review: 'Approved' of an approved review hides it,
\* a pending review has 'Approve' and 'Hide' (lines 493-516)
ToggleButtons(review) == IF Truthy(review.approved) THEN {JsFalse} ELSE {JsTrue, JsFalse}

\* onClick of a button: toggleApproval(review.id, approved) runs to its
\* `await fetch(..., { method: 'PATCH', body: JSON.stringify({ approved }) })`
ToggleApprovalRequest(c) ==
    /\ patch[c].pc = "idle"
    /\ \E i \in 1..Len(dashboard.filteredReviews) :
         \E approved \in ToggleButtons(dashboard.filteredReviews[i]) :
           patch' = [patch EXCEPT ![c] =
                        [IdleCall EXCEPT !.pc = "sent",
                                         !.toggle = [id |-> dashboard.filteredReviews[i].id,
                                                     approved |-> approved]]]
    /\ UNCHANGED <<reviewApprovals, fetching, res, lastSet, seen, dashboard, attempts>>

\* prev.map(review => review.id === reviewId ? { ...review, approved } : review)
WithApproval(list, reviewId, approved) ==
    [i \in 1..Len(list) |->
        IF list[i].id = reviewId THEN [list[i] EXCEPT !.approved = approved] ELSE list[i]]

\* toggleApproval after its await: with response.ok it sets the flag of the
\* review in `reviews` to its own argument, and the effect runs
ToggleApprovalResponse(c) ==
    /\ patch[c].pc = "done"
    /\ patch[c].toggle # NoToggle
    /\ dashboard' =
         IF patch[c].resp.status \in 200..299
         THEN FilterEffect([dashboard EXCEPT
                  !.reviews = WithApproval(@, patch[c].toggle.id, patch[c].toggle.approved)])
         ELSE dashboard
    /\ patch' = [patch EXCEPT ![c] = IdleCall]
    /\ lastSet' = [k \in DOMAIN lastSet |->
                      IF lastSet[k].by = c THEN [lastSet[k] EXCEPT !.by = 0] ELSE lastSet[k]]
    /\ UNCHANGED <<reviewApprovals, fetching, res, seen, attempts>>

RECURSIVE SumRatingOrZero(_)
\* list.reduce((sum, review) => sum + (review.rating || 0), 0)
SumRatingOrZero(list) ==
    IF list = <<>> THEN 0 ELSE NumOr(Head(list).rating, 0) + SumRatingOrZero(Tail(list))

\* Statistics that divide whatever the number of reviews.
getStats_NoGuard(d) ==
    LET total == Len(d.filteredReviews)
        approved == Len(ApprovedOnly(d.filteredReviews))
    IN  [total |-> total,
         avgRating |-> IF total > 0
                       THEN Text(ToFixed1(SumRatingOrZero(d.filteredReviews), total))
                       ELSE Text(NaN),
         approved |-> approved,
         pending |-> total - approved]

\* getStats: the statistics of the listed reviews; '0.0' is Text(0)
getStats(d) ==
    LET total == Len(d.filteredReviews)
        approved == Len(ApprovedOnly(d.filteredReviews))
    IN  [total |-> total,
         avgRating |-> IF total > 0
                       THEN Text(ToFixed1(SumRatingOrZero(d.filteredReviews), total))
                       ELSE Text(0),
         approved |-> approved,
         pending |-> total - approved]

\* (num / den).toFixed(digits) as rendered: 'NaN' for 0 / 0, or the nearest
\* value, in tenths of the last digit's unit when digits is 1
Ratio(num, den) == IF den = 0 THEN Text(NaN) ELSE Text(ToFixed1(num, den))

\* getAnalytics: counts and rating sums by property and by channel
\* An analytics pass that counts the low ratings among the reviews listed.
getAnalytics_Filtered(d) ==
    LET of(field, v) == SelectSeq(d.reviews, LAMBDA review : review[field] = v)
        names == {d.reviews[i].listingName : i \in 1..Len(d.reviews)}
        channels == {d.reviews[i].channel : i \in 1..Len(d.reviews)}
    IN  [byProperty |-> [n \in names |->
                            [count |-> Len(of("listingName", n)),
                             totalRating |-> SumOfRatings(of("listingName", n)),
                             approved |-> Len(ApprovedOnly(of("listingName", n)))]],
         byChannel |-> [c \in channels |->
                            [count |-> Len(of("channel", c)),
                             totalRating |-> SumOfRatings(of("channel", c))]],
         lowRatedReviews |-> Len(SelectSeq(d.filteredReviews, LAMBDA r : r.rating < 80))]

getAnalytics(d) ==
    LET of(field, v) == SelectSeq(d.reviews, LAMBDA review : review[field] = v)
        names == {d.reviews[i].listingName : i \in 1..Len(d.reviews)}
        channels == {d.reviews[i].channel : i \in 1..Len(d.reviews)}
    IN  [byProperty |-> [n \in names |->
                            [count |-> Len(of("listingName", n)),
                             totalRating |-> SumOfRatings(of("listingName", n)),
                             approved |-> Len(ApprovedOnly(of("listingName", n)))]],
         byChannel |-> [c \in channels |->
                            [count |-> Len(of("channel", c)),
                             totalRating |-> SumOfRatings(of("channel", c))]],
         lowRatedReviews |-> Len(SelectSeq(d.reviews, LAMBDA r : r.rating < 80))]

\* The ratios of the analytics tab: per property the average rating and the
\* approval percentage, per channel the average rating, and the response rate
AnalyticsRatios(d) ==
    LET analytics == getAnalytics(d)
        stats == getStats(d)
    IN  [propertyAverage |-> [n \in DOMAIN analytics.byProperty |->
                                 Ratio(analytics.byProperty[n].totalRating,
                                       analytics.byProperty[n].count)],
         propertyApproval |-> [n \in DOMAIN analytics.byProperty |->
                                  Ratio(analytics.byProperty[n].approved * 100,
                                        analytics.byProperty[n].count)],
         channelAverage |-> [c \in DOMAIN analytics.byChannel |->
                                Ratio(analytics.byChannel[c].totalRating,
                                      analytics.byChannel[c].count)],
         responseRate |-> Ratio(stats.approved * 100, stats.total)]

\* const approvedReviews = reviews.filter(review => review.approved)
approvedReviews(d) == SelectSeq(d.reviews, LAMBDA review : Truthy(review.approved))

\* The Property Display tab: the approved reviews, newest first, their number,
\* and the average rating it shows, which is stats.avgRating
PropertyDisplay(d) ==
    [reviews |-> Sort(approvedReviews(d), "date-desc"),
     count |-> Len(approvedReviews(d)),
     avgRating |-> getStats(d).avgRating]

-----------------------------------------------------------------------------
(* The system *)

\* The server after start
InitServer ==
    /\ reviewApprovals = EmptyMap
    /\ patch = [c \in Clients |-> IdleCall]
    /\ fetching = 0
    /\ res = NoRes
    /\ lastSet = EmptyMap
    /\ seen = {}
    /\ attempts = 0

Init ==
    /\ InitServer
    /\ dashboard = InitialDashboard

\* The approval endpoint as the clients cs use it
Approval(cs) ==
    \/ \E c \in cs : SetApprovalRequest(c)
    \/ \E c \in cs : ApprovalHandler(c)
    \/ \E c \in cs : ApprovalResponse(c)

\* The manager dashboard is the first client.
Manager == {c \in Clients : c <= 1}

\* The server with one dashboard: every endpoint
Next ==
    \/ Approval(Manager)
    \/ HostawayRequest
    \/ HostawayReturn(ApiBatches)
    \/ StatisticsHandler
    \/ PropertyHandler

Spec == Init /\ [][Next]_vars

\* The approval endpoint under concurrent clients
NextStore == Approval(Clients)

SpecStore == Init /\ [][NextStore]_vars


-----------------------------------------------------------------------------
(* The normaliser over the raw records a source can deliver *)

\* Direct ratings: none, or a rating on the 0-10 scale (in tenths)
RawRatings == {NoNumber, 0, 45, 100}

\* Category scores: none, or a score on the 0-10 scale (in tenths)
RawScores == {NoNumber, 0, 70, 75, 90}

\* reviewCategory: absent, or an array of up to MaxCats categories
RawCategories ==
    {NoCategories} \cup
    UNION { { Categories([i \in 1..n |-> Cat("cleanliness", f[i])]) : f \in [1..n -> RawScores] }
            : n \in 0..MaxCats }

NormBatches == { <<RawReview(1, rating, categories)>> :
                     rating \in RawRatings, categories \in RawCategories }

NextNorm ==
    \/ HostawayRequest
    \/ HostawayReturn(NormBatches)
    \/ StatisticsHandler
    \/ PropertyHandler

SpecNorm == Init /\ [][NextNorm]_vars

\* Result lists the source delivers to the read handlers: the batches of the
\* approval model, a review without rating, and the mock review's id alone
FetchBatches ==
    ApiBatches \cup { <<RawReview(2, NoNumber, NoCategories)>>,
                      <<RawReview(7453, 100, NoCategories)>> }

NextFetch ==
    \/ HostawayRequest
    \/ HostawayReturn(FetchBatches)
    \/ StatisticsHandler
    \/ PropertyHandler

\* The read handlers when every call of axios.get comes to an end: the source
\* answers, the transport fails, or the timeout of 10 s passes
SpecFetch == Init /\ [][NextFetch]_vars /\ WF_vars(HostawayReturn(FetchBatches))

-----------------------------------------------------------------------------
(* The dashboard over the review lists a fetch can bring *)

\* fetchReviews has put the fetched reviews in `reviews`, and the effect has run
InitView ==
    /\ InitServer
    /\ \E list \in ReviewLists :
         dashboard = FilterEffect([InitialDashboard EXCEPT !.reviews = list])

NextView ==
    \/ SetSearchTerm
    \/ SetDateRange
    \/ SetFilters

SpecView == InitView /\ [][NextView]_vars

\* The reviews a fetch returns while the store is empty: all pending
PendingLists == { list \in ReviewLists : \A i \in 1..Len(list) : ~Truthy(list[i].approved) }

InitToggle ==
    /\ InitServer
    /\ \E list \in PendingLists :
         dashboard = FilterEffect([InitialDashboard EXCEPT !.reviews = list])

\* The dashboard's calls of toggleApproval, several of them on their way at once
NextToggle ==
    \/ \E c \in Clients : ToggleApprovalRequest(c)
    \/ \E c \in Clients : ApprovalHandler(c)
    \/ \E c \in Clients : ToggleApprovalResponse(c)
    \/ SetSearchTerm

\* The dashboard and the approval endpoint
SpecToggle == InitToggle /\ [][NextToggle]_vars

\* Fetched reviews of which one carries a submittedAt that new Date cannot parse
DatedPool ==
    { Review(1, <<"A", "n", "n">>, <<"G", "o", "o", "d">>, Soho, 90,
             "2024-10-05 00:00:00", JsFalse),
      Review(3, <<"C", "y">>, <<"F", "i", "n", "e">>, Kew, 90,
             "2024-11-28 16:20:12", JsTrue),
      Review(4, <<"D", "e", "e">>, <<"O", "k", "a", "y">>, Soho, 70,
             "soon", JsTrue) }

DatedLists ==
    UNION { { s \in [1..n -> DatedPool] : \A i, j \in 1..n : s[i] = s[j] => i = j }
            : n \in 0..MaxReviews }

InitDates ==
    /\ InitServer
    /\ \E list \in DatedLists :
         dashboard = FilterEffect([InitialDashboard EXCEPT !.reviews = list])

\* The dashboard over reviews with a malformed date
SpecDates == InitDates /\ [][NextView]_vars

-----------------------------------------------------------------------------
(* Claims *)

\* The ids of the reviews the sources deliver, and one more
ReviewIds == {7453, 1, 2}

\* A call of client c that the handler has answered
Answered(c) == patch[c].pc = "done"

\* A call of client c that the handler has answered with success
Stored(c) == Answered(c) /\ patch[c].resp.success

\* A step in which the handler answers the call of client c
Answers(c) == patch[c].pc = "sent" /\ patch'[c].pc = "done"

\* A step in which a hostaway fetch sends its response
FetchResponds == fetching' = fetching - 1

\* C1: the approved flag joined onto a review id is the value of the last
\* successful setApproval on that id, and false for an id on which none succeeded.
C1_SetThenGet ==
    \A n \in ReviewIds :
        ApprovedOf(reviewApprovals, n) =
            IF toString(n) \in DOMAIN lastSet THEN lastSet[toString(n)].approved ELSE JsFalse

\* An approval of review 7453 was overwritten by a later setApproval(7453, false),
\* review 1 is approved, and "01" was set too.
C1_Witness ==
    /\ toString(7453) \in DOMAIN lastSet
    /\ lastSet[toString(7453)].approved = JsFalse
    /\ \E c \in Clients : Stored(c) /\ patch[c].resp.reviewId = toString(7453)
                          /\ patch[c].resp.approved = JsTrue
    /\ ApprovedOf(reviewApprovals, 7453) = JsFalse
    /\ ApprovedOf(reviewApprovals, 1) = JsFalse
    /\ <<"0", "1">> \in DOMAIN lastSet
    /\ lastSet[<<"0", "1">>].approved = JsTrue

\* C2: a setApproval whose approved is no boolean is answered with the
\* validation error (status 400, success false) and leaves the store as it was.
C2_InvalidRejected ==
    [][\A c \in Clients :
          (Answers(c) /\ TypeOf(patch'[c].approved) # "boolean")
              => /\ patch'[c].resp.status = 400
                 /\ ~patch'[c].resp.success
                 /\ reviewApprovals' = reviewApprovals]_vars

\* A call with the string 'yes' was refused while the store holds an entry.
C2_Witness ==
    \E c \in Clients :
        /\ Answered(c)
        /\ patch[c].approved = "'yes'"
        /\ patch[c].resp.status = 400
        /\ reviewApprovals # EmptyMap

\* C3: a step that changes the approval store is a step of the approval
\* handler: no step of the fetch (external or fallback path, or failing), of the
\* statistics or of the property-scoped fetch changes an entry.
C3_OnlyToggleWrites ==
    [][reviewApprovals' # reviewApprovals
          => \E c \in Clients : Answers(c) /\ patch'[c].resp.success]_vars

\* With entries in the store, fetches have returned external and fallback data
\* and the last one failed.
C3_Witness ==
    /\ reviewApprovals # EmptyMap
    /\ {1, 7453} \subseteq seen
    /\ res.op = "hostaway"
    /\ res.status = 500

\* C4: calls for different ids, concurrent or not, all succeed, and the store
\* holds the value of each call that was the last to write its id.
C4_BothWritesKept ==
    /\ \A c \in Clients :
           (Answered(c) /\ TypeOf(patch[c].approved) = "boolean") => Stored(c)
    /\ \A c, d \in Clients :
           (/\ c # d
            /\ Stored(c) /\ Stored(d)
            /\ patch[c].resp.reviewId # patch[d].resp.reviewId
            /\ lastSet[patch[c].resp.reviewId].by = c
            /\ lastSet[patch[d].resp.reviewId].by = d)
               => /\ MapGet(reviewApprovals, patch[c].resp.reviewId) = patch[c].resp.approved
                  /\ MapGet(reviewApprovals, patch[d].resp.reviewId) = patch[d].resp.approved

\* Two calls that were on their way at the same time wrote different ids.
C4_Witness ==
    \E c, d \in Clients :
        /\ c # d
        /\ Stored(c) /\ Stored(d)
        /\ patch[c].raced
        /\ patch[c].resp.reviewId = toString(7453) /\ patch[c].resp.approved = JsTrue
        /\ patch[d].resp.reviewId = toString(1) /\ patch[d].resp.approved = JsFalse
        /\ lastSet[toString(7453)].by = c
        /\ lastSet[toString(1)].by = d

\* C5: of two answered calls for the same id, the store holds the value of the
\* one whose write ran last, hence a value one of them wrote.
C5_LastWriteWins ==
    \A c, d \in Clients :
        (/\ c # d
         /\ Stored(c) /\ Stored(d)
         /\ patch[c].resp.reviewId = patch[d].resp.reviewId
         /\ lastSet[patch[c].resp.reviewId].by = c)
            => /\ MapGet(reviewApprovals, patch[c].resp.reviewId) = patch[c].resp.approved
               /\ MapGet(reviewApprovals, patch[c].resp.reviewId)
                      \in {patch[c].resp.approved, patch[d].resp.approved}

\* Two calls that were on their way at the same time wrote different values to
\* one id, and the second write is the one stored.
C5_Witness ==
    \E c, d \in Clients :
        /\ c # d
        /\ Stored(c) /\ Stored(d)
        /\ patch[d].raced
        /\ patch[c].resp.reviewId = toString(7453) /\ patch[d].resp.reviewId = toString(7453)
        /\ patch[d].resp.approved = JsTrue /\ patch[c].resp.approved = JsFalse
        /\ lastSet[toString(7453)].by = c
        /\ MapGet(reviewApprovals, toString(7453)) = JsFalse

\* C6: a fetch that responds while the last successful setApproval on an id
\* is setApproval(id, true) returns the review of that id with approved = true.
C6_ApprovalSurvivesFetch ==
    [][FetchResponds =>
          (res'.status = 200 =>
              \A i \in 1..Len(res'.body.data) :
                  LET k == toString(res'.body.data[i].id)
                  IN  (k \in DOMAIN lastSet /\ lastSet[k].approved = JsTrue)
                          => res'.body.data[i].approved = JsTrue)]_vars

\* Review 7453 was approved after a fetch had returned it, and a later fetch
\* returns it approved.
C6_Witness ==
    /\ res.op = "hostaway"
    /\ res.status = 200
    /\ res.body.source = "mock_data"
    /\ res.body.data[1].id = 7453
    /\ res.body.data[1].approved = JsTrue
    /\ ~lastSet[toString(7453)].unseen

\* C7: setApproval with a boolean succeeds and stores the value whether or not
\* a fetch has returned a review of that id, and a fetch that returns a review
\* whose flag was last set before any fetch returned its id carries that value.
C7_ApprovalBeforeAppearance ==
    [][/\ \A c \in Clients :
             (/\ Answers(c)
              /\ TypeOf(patch'[c].approved) = "boolean")
                 => /\ patch'[c].resp.success
                    /\ MapGet(reviewApprovals', patch'[c].resp.reviewId) = patch'[c].approved
       /\ FetchResponds =>
             (res'.status = 200 =>
                 \A i \in 1..Len(res'.body.data) :
                     LET k == toString(res'.body.data[i].id)
                     IN  (k \in DOMAIN lastSet /\ lastSet[k].unseen)
                             => res'.body.data[i].approved = lastSet[k].approved)]_vars

\* Review 1 was approved before any fetch returned it, and the external fetch
\* now returns it approved.
C7_Witness ==
    /\ res.op = "hostaway"
    /\ res.status = 200
    /\ res.body.source = "hostaway_api"
    /\ res.body.data[1].id = 1
    /\ res.body.data[1].approved = JsTrue
    /\ toString(1) \in DOMAIN lastSet
    /\ lastSet[toString(1)].unseen

\* The ratings a response carries: the reviews of a fetch or a property-scoped
\* fetch, the recent activity of the statistics
ReturnedRatings ==
    IF res.status # 200 THEN {}
    ELSE IF res.op \in {"hostaway", "property"}
         THEN {res.body.data[i].rating : i \in 1..Len(res.body.data)}
    ELSE IF res.op = "statistics"
         THEN {res.body.data.recentActivity[i].rating :
                   i \in 1..Len(res.body.data.recentActivity)}
    ELSE {}

\* C8: every rating returned by the fetch, the statistics or the property-scoped
\* fetch is a number from 0 to 10 (0 to 100 tenths), never null.
C8_RatingInRange == \A r \in ReturnedRatings : r # NoNumber /\ r >= 0 /\ r <= 100

\* A record without direct rating and with a category without score was normalised.
C8_Witness ==
    /\ res.op = "hostaway"
    /\ res.status = 200
    /\ res.raw[1].rating = NoNumber
    /\ res.raw[1].reviewCategory = Categories(<<Cat("cleanliness", NoNumber),
                                                Cat("cleanliness", 90)>>)
    /\ res.body.data[1].rating = 45

\* C9 as claimed: a record with a non-null direct rating, 0 included, is
\* normalised to that rating.
C9_DirectRatingKept ==
    (res.op = "hostaway" /\ res.status = 200) =>
        \A i \in 1..Len(res.raw) :
            res.raw[i].rating # NoNumber => res.body.data[i].rating = res.raw[i].rating

RECURSIVE SumScores(_)
\* The sum of the scores that are there
SumScores(items) ==
    IF items = <<>> THEN 0
    ELSE (IF Head(items).rating = NoNumber THEN 0 ELSE Head(items).rating)
         + SumScores(Tail(items))

\* The categories that carry a score
Scored(items) == SelectSeq(items, LAMBDA cat : cat.rating # NoNumber)

\* r is total / n rounded to the nearest tenth, a tie upwards (all in tenths)
IsRounded(r, total, n) == -n <= 2 * (total - r * n) /\ 2 * (total - r * n) < n

\* C10 as claimed: without direct rating and with at least one category score,
\* the rating is the mean of the category scores, rounded to one decimal.
C10_MeanOfScores ==
    (res.op = "hostaway" /\ res.status = 200) =>
        \A i \in 1..Len(res.raw) :
            LET items == res.raw[i].reviewCategory.items
            IN  (res.raw[i].rating = NoNumber /\ Len(Scored(items)) > 0)
                    => IsRounded(res.body.data[i].rating, SumScores(items), Len(Scored(items)))

\* C10 as amended: without direct rating and with at least one category, the
\* rating is the sum of the scores, a missing score counting 0, divided by the
\* number of categories and rounded to one decimal.
C10_MeanOverCategories ==
    (res.op = "hostaway" /\ res.status = 200) =>
        \A i \in 1..Len(res.raw) :
            LET items == res.raw[i].reviewCategory.items
            IN  (res.raw[i].rating = NoNumber /\ Len(items) > 0)
                    => IsRounded(res.body.data[i].rating, SumScores(items), Len(items))

\* Scores 7.5 and 9 without direct rating gave 8.3 (the mean 8.25 rounded).
C10_Witness ==
    /\ res.op = "hostaway"
    /\ res.status = 200
    /\ res.raw[1].rating = NoNumber
    /\ res.raw[1].reviewCategory = Categories(<<Cat("cleanliness", 75),
                                                Cat("cleanliness", 90)>>)
    /\ res.body.data[1].rating = 83

\* C11 as claimed: a record without direct rating and without categories
\* (absent or empty list) is normalised to the default 7.5, and the default is
\* given in that case only: a record without categories that has a direct
\* rating other than 7.5 does not come out as 7.5.
C11_DefaultOnlyWithoutScores ==
    (res.op = "hostaway" /\ res.status = 200) =>
        \A i \in 1..Len(res.raw) :
            Len(res.raw[i].reviewCategory.items) = 0 =>
                /\ res.raw[i].rating = NoNumber => res.body.data[i].rating = DefaultRating
                /\ res.raw[i].rating \notin {NoNumber, DefaultRating}
                       => res.body.data[i].rating # DefaultRating

\* The response of a fetch whose call to the source threw carries the mock
\* reviews, all of them, and counts them.
FallbackData ==
    /\ res.status = 200
    /\ res.body.success
    /\ res.raw = mockReviews
    /\ Len(res.body.data) > 0
    /\ Len(res.body.data) = Len(mockReviews)
    /\ \A i \in 1..Len(mockReviews) : res.body.data[i].id = mockReviews[i].id
    /\ res.body.total = Len(res.body.data)

C13_FetchReadsSnapshot ==
    /\ [][/\ (FetchResponds /\ res'.status = 200) =>
                \A i \in 1..Len(res'.body.data) :
                    LET k == toString(res'.body.data[i].id)
                    IN  res'.body.data[i].approved =
                            IF k \in DOMAIN lastSet THEN lastSet[k].approved ELSE JsFalse
          /\ \A c \in Clients : Answers(c) => res' = res]_vars
    /\ [](fetching > 0 => ENABLED HostawayReturn(ApiBatches))

\* A fetch returned review 7453 as not approved, the review was approved
\* afterwards, and a further fetch awaits the source while an approval call is
\* on its way.
C13_Witness ==
    /\ res.op = "hostaway"
    /\ res.status = 200
    /\ res.body.data[1].id = 7453
    /\ res.body.data[1].approved = JsFalse
    /\ toString(7453) \in DOMAIN lastSet
    /\ lastSet[toString(7453)].approved = JsTrue
    /\ fetching > 0
    /\ \E c \in Clients : patch[c].pc = "sent"

\* The ids of the reviews of a list
IdsOf(list) == {list[i].id : i \in 1..Len(list)}

\* The same letter, in either case
SameLetter(a, b) ==
    \/ a = b
    \/ \E k \in 1..Len(UpperCase) : {a, b} = {UpperCase[k], LowerCase[k]}

\* text holds the characters of part in a row, the case of letters aside
ContainsIgnoringCase(text, part) ==
    \E offset \in 0..(Len(text) - Len(part)) :
        \A j \in 1..Len(part) : SameLetter(text[offset + j], part[j])

\* The query fields, each passed by a review when it is not set
PassesSearch(review) ==
    dashboard.searchTerm # <<>> =>
        \E field \in {"guestName", "publicReview", "listingName"} :
            ContainsIgnoringCase(review[field], dashboard.searchTerm)

PassesProperty(review) ==
    dashboard.filters.property # <<>> => review.listingName = dashboard.filters.property

PassesMinRating(review) ==
    dashboard.filters.rating # <<>> =>
        \E n \in 0..10 : toString(n) = dashboard.filters.rating /\ review.rating >= 10 * n

PassesStatus(review) ==
    /\ dashboard.filters.status = "approved" => review.approved = JsTrue
    /\ dashboard.filters.status = "pending" => review.approved = JsFalse

PassesChannel(review) ==
    dashboard.filters.channel # "" => review.channel = dashboard.filters.channel

PassesDateFrom(review) ==
    dashboard.dateRange.start # "" =>
        DateValue(review.submittedAt) >= DateValue(dashboard.dateRange.start)

PassesDateTo(review) ==
    dashboard.dateRange.end # "" =>
        DateValue(review.submittedAt) <= DateValue(dashboard.dateRange.end)

\* C14: the listed reviews are, each once, the fetched reviews that pass every
\* query field that is set: search text, property, minimum rating, status,
\* channel, start and end date; a field that is not set excludes nothing.
C14_FilterIsConjunction ==
    /\ Len(dashboard.filteredReviews) = Cardinality(IdsOf(dashboard.filteredReviews))
    /\ \A i \in 1..Len(dashboard.filteredReviews) :
           \E j \in 1..Len(dashboard.reviews) :
               dashboard.filteredReviews[i] = dashboard.reviews[j]
    /\ \A j \in 1..Len(dashboard.reviews) :
           LET review == dashboard.reviews[j]
           IN  review.id \in IdsOf(dashboard.filteredReviews) <=>
                   /\ PassesSearch(review)
                   /\ PassesProperty(review)
                   /\ PassesMinRating(review)
                   /\ PassesStatus(review)
                   /\ PassesChannel(review)
                   /\ PassesDateFrom(review)
                   /\ PassesDateTo(review)

\* Status pending and minimum rating 8 over the reviews (9, pending),
\* (6, pending), (9, approved) list the first only.
C14_Witness ==
    /\ Len(dashboard.reviews) = 3
    /\ \A i \in 1..3 : dashboard.reviews[i].id = i
    /\ dashboard.filters.status = "pending"
    /\ dashboard.filters.rating = <<"8">>
    /\ dashboard.searchTerm = <<>>
    /\ dashboard.filters.property = <<>>
    /\ dashboard.filters.channel = ""
    /\ dashboard.dateRange = [start |-> "", end |-> ""]
    /\ IdsOf(dashboard.filteredReviews) = {1}

\* C15: a step of the dashboard's filter and sort leaves the fetched reviews
\* as they were, order and content, and running the filter and sort once more
\* on the state it leaves gives the list it has produced.
C15_InputUntouched ==
    [][dashboard' # dashboard =>
          /\ dashboard'.reviews = dashboard.reviews
          /\ FilterAndSort(dashboard') = dashboard'.filteredReviews]_vars

\* The reviews were fetched as (6, pending), (9, pending) and are listed
\* highest rating first, the other way round.
C15_Witness ==
    /\ Len(dashboard.reviews) = 2
    /\ dashboard.reviews[1].id = 2
    /\ dashboard.reviews[2].id = 1
    /\ dashboard.filters.sortBy = "rating-desc"
    /\ Len(dashboard.filteredReviews) = 2
    /\ dashboard.filteredReviews[1].id = 1
    /\ dashboard.filteredReviews[2].id = 2

\* Review a comes strictly before review b in the order of a sort option
Precedes(a, b, sortBy) ==
    CASE sortBy = "date-desc" -> DateValue(a.submittedAt) > DateValue(b.submittedAt)
      [] sortBy = "date-asc" -> DateValue(a.submittedAt) < DateValue(b.submittedAt)
      [] sortBy = "rating-desc" -> a.rating > b.rating
      [] sortBy = "rating-asc" -> a.rating < b.rating

\* The place of the review of an id in the fetched reviews
PlaceOf(id) == CHOOSE j \in 1..Len(dashboard.reviews) : dashboard.reviews[j].id = id

\* C16: the listed reviews are the reviews the filter keeps, in the order of
\* the sort option (newest, oldest, highest or lowest rating first), reviews
\* of equal key in the order in which they were fetched; an option that is
\* none of the four sorts newest first.
C16_StableSort ==
    LET listed == dashboard.filteredReviews
        sortBy == dashboard.filters.sortBy
    IN  /\ IdsOf(listed) = {r.id : r \in {q \in ReviewPool :
                                 /\ q.id \in IdsOf(dashboard.reviews)
                                 /\ Include(q, dashboard)}}
        /\ \A i, j \in 1..Len(listed) :
               i < j =>
                   /\ ~Precedes(listed[j], listed[i], sortBy)
                   /\ ~Precedes(listed[i], listed[j], sortBy)
                          => PlaceOf(listed[i].id) < PlaceOf(listed[j].id)
        /\ \A other \in {"", "newest"} :
               Sort(dashboard.reviews, other) = Sort(dashboard.reviews, "date-desc")

\* The reviews were fetched as 2, 3, 1, the last two both rated 9, and are
\* listed highest rating first as 3, 1, 2.
C16_Witness ==
    /\ Len(dashboard.reviews) = 3
    /\ dashboard.reviews[1].id = 2
    /\ dashboard.reviews[2].id = 3
    /\ dashboard.reviews[3].id = 1
    /\ dashboard.filters.sortBy = "rating-desc"
    /\ Len(dashboard.filteredReviews) = 3
    /\ dashboard.filteredReviews[1].id = 3
    /\ dashboard.filteredReviews[2].id = 1
    /\ dashboard.filteredReviews[3].id = 2

\* C17: a fetched review that passes the other query fields is left out of
\* the list exactly when a start date is set and its submittedAt is earlier,
\* or an end date is set and its submittedAt is later; a review submitted at
\* the very instant of a bound is listed.
C17_InclusiveDates ==
    \A j \in 1..Len(dashboard.reviews) :
        LET review == dashboard.reviews[j]
            at == DateValue(review.submittedAt)
            start == dashboard.dateRange.start
            end == dashboard.dateRange.end
        IN  (/\ PassesSearch(review)
             /\ PassesProperty(review)
             /\ PassesMinRating(review)
             /\ PassesStatus(review)
             /\ PassesChannel(review))
                => (review.id \notin IdsOf(dashboard.filteredReviews) <=>
                        \/ start # "" /\ at < DateValue(start)
                        \/ end # "" /\ at > DateValue(end))

\* With the start and the end date both at 2024-10-05, the two reviews
\* submitted at 2024-10-05 00:00:00 are listed and the later one is not.
C17_Witness ==
    /\ IdsOf(dashboard.reviews) = {1, 2, 3}
    /\ dashboard.dateRange = [start |-> "2024-10-05", end |-> "2024-10-05"]
    /\ DateValue(dashboard.reviews[PlaceOf(1)].submittedAt) = DateValue("2024-10-05")
    /\ IdsOf(dashboard.filteredReviews) = {1, 2}

C19_NoRatioIsNaN ==
    LET ratios == AnalyticsRatios(dashboard)
    IN  /\ \A n \in DOMAIN ratios.propertyAverage : ratios.propertyAverage[n].value # NaN
        /\ \A n \in DOMAIN ratios.propertyApproval : ratios.propertyApproval[n].value # NaN
        /\ \A c \in DOMAIN ratios.channelAverage : ratios.channelAverage[c].value # NaN
        /\ ratios.responseRate.value # NaN
        /\ Len(dashboard.filteredReviews) = 0 => ratios.responseRate.value = 0
        /\ StatisticsBody(reviewApprovals).data.overall.approvalRate.value # NaN
        /\ StatisticsOver(<<>>, reviewApprovals).data.overall.approvalRate.value = 0

\* text holds the characters of part in a row
Contains(text, part) ==
    \E offset \in 0..(Len(text) - Len(part)) :
        \A j \in 1..Len(part) : text[offset + j] = part[j]

\* C20: for every path parameter and every value of approved_only, the
\* property-scoped fetch returns, each once and with total their number, the
\* mock reviews whose listingName contains the parameter or whose id in
\* decimal digits is the parameter and, with approved_only 'true', whose
\* entry in the store is true.
C20_PropertyScoped ==
    \A listingId \in ListingIds, approved_only \in ApprovedOnlyParams :
        LET body == PropertyBody(listingId, approved_only, reviewApprovals)
            wanted == {i \in 1..Len(mockReviews) :
                          /\ \/ Contains(mockReviews[i].listingName, listingId)
                             \/ toString(mockReviews[i].id) = listingId
                          /\ approved_only = "true" =>
                                 MapGet(reviewApprovals, toString(mockReviews[i].id)) = JsTrue}
        IN  /\ body.success
            /\ body.total = Len(body.data)
            /\ Len(body.data) = Cardinality(wanted)
            /\ \A i \in wanted : \E k \in 1..Len(body.data) :
                   /\ body.data[k].id = mockReviews[i].id
                   /\ body.data[k].listingName = mockReviews[i].listingName

\* Review 7453 was hidden by setApproval, and the fetch of the approved
\* reviews of its listing returns nothing.
C20_Witness ==
    /\ res.op = "property"
    /\ res.call.listingId = <<"S", "h", "o", "r", "e">>
    /\ res.call.approved_only = "true"
    /\ res.body.data = <<>>
    /\ res.body.total = 0
    /\ MapGet(reviewApprovals, toString(7453)) = JsFalse
    /\ lastSet[toString(7453)].approved = JsFalse
    /\ \E c \in Clients : Stored(c) /\ patch[c].resp.reviewId = toString(7453)
                          /\ patch[c].resp.approved = JsFalse

\* C21 as claimed: every review the Property Display lists is approved in the
\* dashboard's reviews, the count it shows is the number of approved reviews,
\* and the average it shows is the average rating of the approved reviews
\* ('0.0' without one), whatever the query of the dashboard.
C21_ApprovedContentOnly ==
    LET display == PropertyDisplay(dashboard)
        approved == {j \in 1..Len(dashboard.reviews) : dashboard.reviews[j].approved = JsTrue}
    IN  /\ \A i \in 1..Len(display.reviews) :
               \E j \in approved : display.reviews[i] = dashboard.reviews[j]
        /\ display.count = Cardinality(approved)
        /\ display.avgRating.type = "string"
        /\ IF approved = {} THEN display.avgRating.value = 0
           ELSE IsRounded(display.avgRating.value,
                          SumRatingOrZero(approvedReviews(dashboard)), Cardinality(approved))

\* The response of a fetch carries the external or the mock reviews
SendsData ==
    /\ res'.op = "hostaway"
    /\ res'.status = 200
    /\ res'.body.source \in {"hostaway_api", "mock_data"}

\* The response of a fetch is the failure envelope of the handler's catch
SendsFailure ==
    /\ res'.op = "hostaway"
    /\ res'.status = 500
    /\ ~res'.body.success

\* C22 as claimed: every fetch that has not responded has made one call to
\* the source; a fetch that awaits the source comes to its response, whether
\* the source answers, fails or times out (fetches respond again and again,
\* or from some point on none awaits the source); and that response carries
\* the external or the fallback data.
C22_OneAttemptThenData ==
    /\ [](attempts = fetching)
    /\ [][FetchResponds => SendsData]_vars
    /\ []<><<FetchResponds>>_vars \/ <>[](fetching = 0)

\* C22 as amended: every fetch that has not responded has made one call to
\* the source; a fetch that awaits the source comes to its response, whether
\* the source answers, fails or times out (fetches respond again and again,
\* or from some point on none awaits the source); and that response carries the
\* external data, the fallback data or, when the source has answered with a
\* record that cannot be normalised, a failure envelope.
C22_OneAttemptThenResponse ==
    /\ [](attempts = fetching)
    /\ [][FetchResponds =>
              \/ SendsData
              \/ SendsFailure /\ res'.call.upstream = "answered"]_vars
    /\ []<><<FetchResponds>>_vars \/ <>[](fetching = 0)

\* A fetch whose call to the source failed has sent the mock reviews, and no
\* fetch awaits the source.
C22_Witness ==
    /\ res.op = "hostaway"
    /\ res.call.upstream = "failed"
    /\ res.status = 200
    /\ fetching = 0
    /\ attempts = 0
    /\ seen = {7453}
\* The input orders of a list of reviews
Orders(list) ==
    { s \in [1..Len(list) -> {list[i] : i \in 1..Len(list)}] :
        \A i, j \in 1..Len(list) : s[i] = s[j] => i = j }

Malformed(review) == DateValue(review.submittedAt) = InvalidDate

\* C23 as claimed: in date-sorted output a review with a malformed
\* submittedAt is listed or left out, and stands at the same position,
\* whatever the order in which the reviews were fetched.
C23_MalformedDatePlaced ==
    dashboard.filters.sortBy \in {"date-desc", "date-asc"} =>
        \A other \in Orders(dashboard.reviews) :
            LET out == FilterAndSort([dashboard EXCEPT !.reviews = other])
            IN  /\ Len(out) = Len(dashboard.filteredReviews)
                /\ \A i \in 1..Len(out) :
                      Malformed(dashboard.filteredReviews[i]) =>
                          out[i] = dashboard.filteredReviews[i]
\* C24: the count of reviews that need attention is the number of fetched
\* reviews rated below 8, whatever the dashboard lists, and no change of the
\* search text, the date range or a filter changes it.
C24_NeedsAttentionUnfiltered ==
    /\ [](getAnalytics(dashboard).lowRatedReviews =
             Cardinality({i \in 1..Len(dashboard.reviews) : dashboard.reviews[i].rating < 80}))
    /\ [][getAnalytics(dashboard').lowRatedReviews =
             getAnalytics(dashboard).lowRatedReviews]_vars

\* Three reviews are fetched, one of them rated below 8, and the rating filter
\* keeps that one out of the list.
C24_Witness ==
    /\ Len(dashboard.reviews) = 3
    /\ dashboard.filters.rating = <<"8">>
    /\ Len(dashboard.filteredReviews) = 2
    /\ getAnalytics(dashboard).lowRatedReviews = 1
SubmittedOn(id, submittedAt) ==
    [RawReview(id, 80, NoCategories) EXCEPT !.submittedAt = submittedAt]

\* Datasets the statistics are taken over: the mock reviews, no review, and six
\* reviews (two of them of equal date) in two orders
RecentSamples ==
    { mockReviews,
      <<>>,
      <<SubmittedOn(1, "2024-10-05"), SubmittedOn(7453, "2024-11-28 16:20:12"),
        SubmittedOn(2, "2024-11-01"), SubmittedOn(3, "2024-10-05 09:00:00"),
        SubmittedOn(4, "2024-11-01"), SubmittedOn(5, "2024-10-05 00:00:00")>>,
      <<SubmittedOn(7453, "2024-11-28 16:20:12"), SubmittedOn(4, "2024-11-01"),
        SubmittedOn(3, "2024-10-05 09:00:00"), SubmittedOn(5, "2024-10-05 00:00:00"),
        SubmittedOn(2, "2024-11-01"), SubmittedOn(1, "2024-10-05")>> }

\* C25: recentActivity holds min(5, total) reviews of the dataset, newest
\* first, each with the approved value the store holds now, and no review
\* left out is newer than one it holds.
C25_RecentActivityLatest ==
    \A raws \in RecentSamples :
        LET recent == StatisticsOver(raws, reviewApprovals).data.recentActivity
            held == {recent[i].id : i \in 1..Len(recent)}
        IN  /\ Len(recent) = (IF Len(raws) < 5 THEN Len(raws) ELSE 5)
            /\ Cardinality(held) = Len(recent)
            /\ \A i \in 1..Len(recent) :
                  /\ \E k \in 1..Len(raws) :
                        /\ raws[k].id = recent[i].id
                        /\ raws[k].submittedAt = recent[i].submittedAt
                  /\ recent[i].approved = ApprovedOf(reviewApprovals, recent[i].id)
                  /\ \A j \in 1..Len(recent) :
                        i < j => DateValue(recent[i].submittedAt) >=
                                     DateValue(recent[j].submittedAt)
                  /\ \A k \in 1..Len(raws) :
                        raws[k].id \notin held =>
                            DateValue(raws[k].submittedAt) <= DateValue(recent[i].submittedAt)

\* The statistics have been sent after the approval of the mock review, and
\* the store holds a value for another review of the six.
C25_Witness ==
    /\ res.op = "statistics"
    /\ Len(res.body.data.recentActivity) = 1
    /\ res.body.data.recentActivity[1].approved = JsTrue
    /\ ApprovedOf(reviewApprovals, 7453) = JsTrue
    /\ toString(1) \in DOMAIN reviewApprovals
\* C26 as claimed: a fetch that fails while it normalises answers with a
\* failure envelope whose message is not the message of the error thrown.
C26_FailureMessageGeneric ==
    (res.op = "hostaway" /\ res.status = 500) =>
        /\ ~res.body.success
        /\ res.body.message # TypeErrorMessage
\* C27 as claimed: when no call of toggleApproval is on its way or awaits its
\* handling by the dashboard, every review of the dashboard carries the
\* approved value the store holds for it.
C27_ClientServerAgree ==
    (\A c \in Clients : patch[c].pc = "idle") =>
        \A i \in 1..Len(dashboard.reviews) :
            dashboard.reviews[i].approved =
                ApprovedOf(reviewApprovals, dashboard.reviews[i].id)
\* C28: the step in which a fetch sends its response normalises the whole
\* batch: every approved flag of the response is the value that one store
\* state, the one before the step, gives for the review's id, and no
\* setApproval is answered or changes the store within the step.
C28_OneStoreStatePerBatch ==
    [][FetchResponds =>
          /\ reviewApprovals' = reviewApprovals
          /\ \A c \in Clients : ~Answers(c)
          /\ res'.status = 200 =>
                \A i \in 1..Len(res'.body.data) :
                    res'.body.data[i].approved =
                        ApprovedOf(reviewApprovals, res'.body.data[i].id)]_vars

\* A fetch has returned a batch of two reviews, the first hidden and the second
\* approved, while an approval call was on its way.
C28_Witness ==
    /\ res.op = "hostaway"
    /\ res.status = 200
    /\ Len(res.body.data) = 2
    /\ res.body.data[1].approved = JsFalse
    /\ res.body.data[2].approved = JsTrue
    /\ toString(res.body.data[1].id) \in DOMAIN reviewApprovals
    /\ \E c \in Clients : patch[c].pc = "sent"
\* C29: a fetch whose source answered without a result list, or with an empty
\* one, sends the mock reviews under the label of the mock data, as a fetch
\* whose source failed does; and no fetch sends a success envelope without data.
C29_NoReviewsFallsBack ==
    res.op = "hostaway" =>
        /\ res.call.upstream \in {"no result", "empty"} =>
              /\ FallbackData
              /\ res.body.source = "mock_data"
              /\ res.body.message = "Using mock data (sandbox environment)"
        /\ (res.status = 200 /\ res.body.success) =>
              /\ Len(res.body.data) > 0
              /\ res.body.total > 0

\* A fetch whose source answered with an empty result list has responded.
C29_Witness ==
    /\ res.op = "hostaway"
    /\ res.call.upstream = "empty"
    /\ res.status = 200
    /\ res.body.source = "mock_data"
    /\ seen = {7453}
\* What the statistics and the property fetches take from the dataset alone:
\* the number of reviews and their average, per property the number and the
\* ratings, the reviews of recentActivity, and the reviews of every listing
DatasetPart(store) ==
    LET data == StatisticsBody(store).data
    IN  [totalReviews |-> data.overall.totalReviews,
         averageRating |-> data.overall.averageRating,
         byProperty |-> [n \in DOMAIN data.byProperty |->
                            <<data.byProperty[n].total, data.byProperty[n].totalRating,
                              data.byProperty[n].averageRating>>],
         recentActivity |-> [i \in 1..Len(data.recentActivity) |->
                                <<data.recentActivity[i].id, data.recentActivity[i].rating,
                                  data.recentActivity[i].submittedAt>>],
         property |-> [l \in ListingIds |->
                          LET listed == PropertyBody(l, JsUndefined, store).data
                          IN  [i \in 1..Len(listed) |-> <<listed[i].id, listed[i].rating>>]]]

MockIds == {toString(mockReviews[i].id) : i \in 1..Len(mockReviews)}

\* C30: the statistics and the property fetches are taken over the mock
\* reviews joined with the store, whatever the fetches have returned: the
\* statistics sent count the mock reviews, approved and pending reviews add
\* up to that count, the reviews of a property fetch are mock reviews; no step
\* changes what comes from the dataset (only a step that changes the store can
\* change anything), and the statistics change only in a step that stores an
\* approval for the id of a mock review.
C30_StatisticsOverMockData ==
    /\ [](LET overall == StatisticsBody(reviewApprovals).data.overall
          IN  /\ overall.totalReviews = Len(mockReviews)
              /\ overall.approvedCount + overall.pendingCount = overall.totalReviews
              /\ overall.approvedCount \in 0..overall.totalReviews)
    /\ [](res.op = "statistics" =>
              /\ res.raw = mockReviews
              /\ res.body.data.overall.totalReviews = Len(mockReviews)
              /\ res.body.data.overall.approvedCount + res.body.data.overall.pendingCount
                     = Len(mockReviews))
    /\ [](res.op = "property" =>
              \A i \in 1..Len(res.body.data) : toString(res.body.data[i].id) \in MockIds)
    /\ [][reviewApprovals' # reviewApprovals =>
              /\ DatasetPart(reviewApprovals') = DatasetPart(reviewApprovals)
              /\ StatisticsBody(reviewApprovals') # StatisticsBody(reviewApprovals) =>
                    \E c \in Clients :
                        /\ Answers(c)
                        /\ patch'[c].resp.success
                        /\ patch'[c].resp.reviewId \in MockIds]_vars

\* Statistics sent after a fetch has returned the review with id 1 and after
\* that review and the mock review have been approved: one review, approved.
C30_Witness ==
    /\ res.op = "statistics"
    /\ 1 \in seen
    /\ ApprovedOf(reviewApprovals, 1) = JsTrue
    /\ res.body.data.overall.totalReviews = 1
    /\ res.body.data.overall.approvedCount = 1
    /\ res.body.data.overall.pendingCount = 0
====
